---- MODULE Spec2Model ----
(***************************************************************************)
(* Model of the Dreamio updater (src/src/main.rs): the worker update_task, *)
(* download_and_apply_update / download_file with the https -> http        *)
(* fallback, apply_update with its per-entry dispositions, and the version *)
(* loop.  The working directory is the variable fs; the remote side        *)
(* (responses, archive contents) and local I/O failures are chosen         *)
(* nondeterministically where the code reads them.                         *)
(***************************************************************************)
EXTENDS Naturals, Sequences, FiniteSets, TLC

\* ------------------------------------------------------------------ bounds
\* Largest archive_len an opened archive reports.
MaxEntries == 2
\* Number of process-table slots that may hold a running "Dreamio.exe".
MaxPids == 1
\* Largest number of whole seconds a download's clock shows.
MaxSecs == 1
\* Number of times the Retry button is pressed.
MaxRetries == 1

\* ------------------------------------------------------------------- paths
\* A path is [dir, base]: dir is the sequence of parent components, base the
\* final component cut at its dots ("game.dat.patch" is <<"game","dat","patch">>,
\* ".patch" is <<"", "patch">>).  An entry name carries in addition whether the
\* string ends in '/'.
Name(dir, base, slash) == [dir |-> dir, base |-> base, slash |-> slash]

Path(dir, base) == [dir |-> dir, base |-> base]

\* PathBuf::from(file.name()): the trailing separator is not a component.
PathBufFrom(name) == Path(name.dir, name.base)

\* Path::file_name: the final component.
FileName(path) == path.base

\* str::ends_with('/')
EndsWithSlash(name) == name.slash

\* str::ends_with(".patch") / ends_with(".delete"): the last characters are a
\* dot and the suffix, so the final component has a dot before its last piece.
EndsWithSuffix(name, suffix) ==
    /\ ~name.slash
    /\ Len(name.base) >= 2
    /\ name.base[Len(name.base)] = suffix

\* Path::with_extension(""): the file name is cut back to its file_stem, which
\* is the whole file name when it has no dot, or starts with its only dot.
WithExtensionEmpty(path) ==
    LET b == path.base IN
    IF Len(b) <= 1 \/ (Len(b) = 2 /\ b[1] = "")
    THEN path
    ELSE Path(path.dir, SubSeq(b, 1, Len(b) - 1))

\* Path::parent of a path with a file name: the directory components.
Parent(path) == path.dir

\* env::current_exe().file_name(): the running updater's own file name.
CurrentExeName == <<"updater", "exe">>

ExePath == Path(<<>>, CurrentExeName)
GamePath == Path(<<>>, <<"game", "dat">>)
MapPath == Path(<< <<"data">> >>, <<"map", "bin">>)
VersionFilePath == Path(<<>>, <<"version", "json">>)
UpdateZipPath == Path(<<>>, <<"update", "zip">>)

\* -------------------------------------------------------------- filesystem
\* The working directory: files maps each existing file to its bytes (a
\* sequence of tokens), dirs is the set of existing directories.
FileExists(fs, path) == path \in DOMAIN fs.files

\* Path::exists: a file or a directory of that name.
PathExists(fs, path) ==
    \/ path \in DOMAIN fs.files
    \/ Append(path.dir, path.base) \in fs.dirs

\* File::create + write of the whole content: the file holds exactly data.
WriteFile(fs, path, data) ==
    [fs EXCEPT !.files = [q \in DOMAIN fs.files \cup {path} |->
                              IF q = path THEN data ELSE fs.files[q]]]

\* A File::create that opens an existing file without truncating it.
TruncateKeep(fs, path) ==
    IF FileExists(fs, path) THEN fs ELSE WriteFile(fs, path, <<>>)

\* File::create alone (or a write that failed after it): the file is truncated.
TruncateFile(fs, path) == WriteFile(fs, path, <<>>)

\* write_all on an open file: the bytes are added at its end; a file that
\* was removed while open takes them with it.
AppendFile(fs, path, chunk) ==
    IF path \in DOMAIN fs.files
    THEN WriteFile(fs, path, Append(fs.files[path], chunk))
    ELSE fs

\* fs::remove_file
RemoveFile(fs, path) ==
    [fs EXCEPT !.files = [q \in DOMAIN fs.files \ {path} |-> fs.files[q]]]

\* fs::create_dir_all: the directory and every missing ancestor.
CreateDirAll(fs, dir) ==
    [fs EXCEPT !.dirs = fs.dirs \cup {SubSeq(dir, 1, k) : k \in 1..Len(dir)}]

\* ------------------------------------------------------------ BinaryPatcher
PatchMagic == "BSDIFF40"

\* A well-formed patch program <<magic, from, to>> rebuilds <<to>> from <<from>>.
\* Bspatch::new rejects a payload without the header; applied to another base
\* the program either runs out of bounds (an error) or yields unrelated bytes.
BspatchResults(old, patch_data) ==
    IF Len(patch_data) # 3 \/ patch_data[1] # PatchMagic
    THEN {[ok |-> FALSE, data |-> <<>>]}
    ELSE IF old = <<patch_data[2]>>
    THEN {[ok |-> TRUE, data |-> <<patch_data[3]>>]}
    ELSE {[ok |-> FALSE, data |-> <<>>], [ok |-> TRUE, data |-> <<"junk">>]}

\* ---------------------------------------------------------- archive entries
ExeImage == <<"exe1">>

\* The entries an archive may hold: a name and a payload.
EntryPool ==
    { [name |-> Name(<<>>, <<"game", "dat">>, FALSE), data |-> <<"c1">>],
      [name |-> Name(<<>>, <<"game", "dat">>, FALSE), data |-> <<"c2">>],
      [name |-> Name(<<>>, <<"game", "dat", "patch">>, FALSE),
       data |-> <<PatchMagic, "c1", "c2">>],
      [name |-> Name(<<>>, <<"game", "dat", "patch">>, FALSE), data |-> <<"junk">>],
      [name |-> Name(<<>>, <<"game", "dat", "delete">>, FALSE), data |-> <<>>],
      [name |-> Name(<<>>, <<"updater", "exe">>, FALSE), data |-> <<"exe2">>],
      [name |-> Name(<<>>, <<"updater", "exe", "patch">>, FALSE),
       data |-> <<PatchMagic, "exe1", "exe2">>],
      [name |-> Name(<<>>, <<"updater", "exe", "delete">>, FALSE), data |-> <<>>],
      [name |-> Name(<<>>, <<"data">>, TRUE), data |-> <<>>],
      [name |-> Name(<<>>, <<"data", "delete">>, FALSE), data |-> <<>>],
      [name |-> Name(<< <<"data">> >>, <<"map", "bin">>, FALSE), data |-> <<"c1">>],
      [name |-> Name(<<>>, <<"version", "json">>, FALSE),
       data |-> <<"versionCode", "5">>],
      [name |-> Name(<<>>, <<"version", "json">>, FALSE),
       data |-> <<"versionCode", "404">>] }

\* No entry: before the first iteration, or when by_index failed.
NoEntry == [name |-> Name(<<>>, <<>>, FALSE), data |-> <<>>]

\* No path: the entry of the last iteration had no original_file and no
\* file_to_delete.
NoPath == Path(<<>>, <<>>)

\* The suffixed names of every shape: at the top level or in a directory, a
\* final component that is the suffix alone (".patch"), has one dot, several
\* dots ("game.dat.patch"), a leading dot (".game.patch"), two dots in a row
\* ("game..patch") or the other suffix before its own ("game.patch.delete").
SuffixedNames ==
    { Name(dir, Append(stem, suffix), FALSE) :
        dir \in {<<>>, << <<"data">> >>},
        stem \in {<<"">>, <<"game">>, <<"game", "dat">>, <<"", "game">>,
                  <<"game", "">>, <<"game", "patch">>, <<"game", "delete">>},
        suffix \in {"patch", "delete"} }

\* Archive entries with these names: an empty payload or a patch program.
SuffixedPool ==
    { [name |-> n, data |-> d] :
        n \in SuffixedNames, d \in {<<>>, <<PatchMagic, "c1", "c2">>} }

\* Where a local I/O call of one entry may fail.
IoFaults == {"none", "access", "mkdir", "read", "create", "write", "remove"}

\* A classification without the suffix tests.
ClassifySuffixBlind(name) ==
    IF EndsWithSlash(name) THEN "Directory" ELSE "Replace"

\* The four branches of apply_update, in the order the code tests them.
Classify(name) ==
    IF EndsWithSlash(name) THEN "Directory"
    ELSE IF EndsWithSuffix(name, "patch") THEN "Patch"
    ELSE IF EndsWithSuffix(name, "delete") THEN "Delete"
    ELSE "Replace"

\* The self-protection test: the entry's own path names the running executable.
IsSelfExe(out_path) == FileName(out_path) = CurrentExeName

\* What handling one entry yields: the filesystem afterwards, how the entry
\* ended (res), whether an Error message was sent and whether the progress
\* messages were sent.
Outcome(fs, disp, res, err, prog) ==
    [fs |-> fs, disp |-> disp, res |-> res, err |-> err, prog |-> prog]

\* A patch that opens its target for writing before anything else.
ApplyPatchInPlace(fs, target, patch_data, io) ==
    {Outcome(TruncateFile(fs, target), "Patch", "fail", TRUE, FALSE)}

\* apply_patch(old_file, patch_data, new_file) with old_file = new_file.
ApplyPatchOutcomes(fs, target, patch_data, io) ==
    IF ~FileExists(fs, target)
    THEN {Outcome(fs, "Patch", "fail", TRUE, FALSE)}
    ELSE { IF ~r.ok THEN Outcome(fs, "Patch", "fail", TRUE, FALSE)
           ELSE IF io = "create" THEN Outcome(fs, "Patch", "fail", TRUE, FALSE)
           ELSE IF io = "write"
           THEN Outcome(TruncateFile(fs, target), "Patch", "fail", TRUE, FALSE)
           ELSE Outcome(WriteFile(fs, target, r.data), "Patch", "ok", FALSE, TRUE)
           : r \in BspatchResults(fs.files[target], patch_data) }

\* The Replace branch: lazily create the parent, create the file, copy.
ReplaceOutcome(fs, out_path, data, io) ==
    LET parent == Parent(out_path)
        needDir == parent # <<>> /\ parent \notin fs.dirs
        fs1 == IF needDir THEN CreateDirAll(fs, parent) ELSE fs
    IN  IF needDir /\ io = "mkdir" THEN Outcome(fs, "Replace", "fail", TRUE, FALSE)
        ELSE IF io = "create" THEN Outcome(fs1, "Replace", "fail", TRUE, FALSE)
        ELSE IF io = "write"
        THEN Outcome(TruncateFile(fs1, out_path), "Replace", "fail", TRUE, FALSE)
        ELSE Outcome(WriteFile(fs1, out_path, data), "Replace", "ok", FALSE, TRUE)

\* A Delete branch for which a missing target is an error.
DeleteOutcomeStrict(fs, target, io) ==
    IF io = "remove" \/ ~FileExists(fs, target)
    THEN Outcome(fs, "Delete", "delfail", TRUE, TRUE)
    ELSE Outcome(RemoveFile(fs, target), "Delete", "ok", FALSE, TRUE)

\* A Delete branch that swallows a failed removal.
DeleteOutcomeSilent(fs, target, io) ==
    IF ~PathExists(fs, target) THEN Outcome(fs, "Delete", "ok", FALSE, TRUE)
    ELSE IF io = "remove" \/ ~FileExists(fs, target)
    THEN Outcome(fs, "Delete", "delfail", FALSE, TRUE)
    ELSE Outcome(RemoveFile(fs, target), "Delete", "ok", FALSE, TRUE)

\* The Delete branch: a failed removal is reported and still counts as done.
\* fs::remove_file fails on a directory.
DeleteOutcome(fs, target, io) ==
    IF ~PathExists(fs, target) THEN Outcome(fs, "Delete", "ok", FALSE, TRUE)
    ELSE IF io = "remove" \/ ~FileExists(fs, target)
    THEN Outcome(fs, "Delete", "delfail", TRUE, TRUE)
    ELSE Outcome(RemoveFile(fs, target), "Delete", "ok", FALSE, TRUE)

\* A Directory branch that reports progress although create_dir_all failed.
DirectoryOutcomeLoud(fs, out_path, io) ==
    IF io = "mkdir" THEN Outcome(fs, "Directory", "fail", TRUE, TRUE)
    ELSE Outcome(CreateDirAll(fs, Append(out_path.dir, out_path.base)),
                 "Directory", "ok", FALSE, TRUE)

\* The Directory branch.
DirectoryOutcome(fs, out_path, io) ==
    IF io = "mkdir" THEN Outcome(fs, "Directory", "fail", TRUE, FALSE)
    ELSE Outcome(CreateDirAll(fs, Append(out_path.dir, out_path.base)),
                 "Directory", "ok", FALSE, TRUE)

\* One iteration of the loop of apply_update over entry e under fault io.
EntryOutcomes(fs, e, io) ==
    LET out_path == PathBufFrom(e.name) IN
    IF io = "access" THEN {Outcome(fs, "none", "fail", TRUE, FALSE)}
    ELSE IF IsSelfExe(out_path) THEN {Outcome(fs, "none", "skip", FALSE, FALSE)}
    ELSE IF Classify(e.name) = "Directory" THEN {DirectoryOutcome(fs, out_path, io)}
    ELSE IF Classify(e.name) = "Patch"
    THEN IF io = "read" THEN {Outcome(fs, "Patch", "fail", TRUE, FALSE)}
         ELSE ApplyPatchOutcomes(fs, WithExtensionEmpty(out_path), e.data, io)
    ELSE IF Classify(e.name) = "Delete"
    THEN {DeleteOutcome(fs, WithExtensionEmpty(out_path), io)}
    ELSE {ReplaceOutcome(fs, out_path, e.data, io)}

\* Lines 807 and 834: the original_file of a Patch entry, the file_to_delete
\* of a Delete entry; no path for an entry that reaches neither branch.
EntryTarget(e, io) ==
    LET out_path == PathBufFrom(e.name) IN
    IF io = "access" \/ IsSelfExe(out_path) THEN NoPath
    ELSE IF Classify(e.name) \in {"Patch", "Delete"} THEN WithExtensionEmpty(out_path)
    ELSE NoPath

\* ----------------------------------------------------------------- network
\* A URL is a sequence of tokens, the scheme first.
VersionCodes == {"5", "404"}

\* A format! that ignores the code it is given.
VersionedUrlFixed(code) == <<"https", "patches", "5">>

\* get_version_info's format!: the versioned archive URL of a version code.
VersionedUrl(code) == <<"https", "patches", code>>

\* The URLs a bootstrap manifest's latestUrl may name.
LatestUrls == {<<"https", "latest">>, <<"http", "latest">>}

\* url.starts_with("https://")
StartsWithHttps(u) == u[1] = "https"

\* url.replace("https", "http"): every occurrence is replaced.
ReplaceHttps(u) == [k \in 1..Len(u) |-> IF u[k] = "https" THEN "http" ELSE u[k]]

\* The response bodies a server may send with a success status: a whole
\* archive, an archive cut short, a page that is no archive, nothing.
ZipBody == <<"PK", "EOCD">>

Bodies == {ZipBody, <<"PK">>, <<"html">>, <<>>}

\* ZipArchive::new succeeds on a whole archive only.
IsZipArchive(data) == data = ZipBody

\* u64 arithmetic: the modulus of a wrapping operation.  The model's integers
\* cannot hold 2^64; byte counts are counted in chunks and the modulus is
\* scaled to 2^20, far above every count of the model.
U64Modulus == 1048576

\* total_size - downloaded on u64 (line 659): exact when it fits; otherwise a
\* panic in a build with overflow checks, the wrapped value in one without.
SubU64(a, b) ==
    IF a >= b THEN {[panic |-> FALSE, val |-> a - b]}
    ELSE {[panic |-> TRUE, val |-> 0],
          [panic |-> FALSE, val |-> (a + U64Modulus - b) % U64Modulus]}

\* bytes_per_sec (lines 652-656) as the fraction <<bytes, seconds>>: 0.0 until
\* a whole second has elapsed, downloaded / elapsed afterwards.
BytesPerSec(dl, secs) == IF secs > 0 THEN <<dl, secs>> ELSE <<0, 1>>

\* bytes_per_sec > 0.0
RatePositive(rate) == rate[1] > 0

\* eta (lines 658-663): (total_size - downloaded) as f64 / bytes_per_sec, cut
\* to whole seconds, when the rate is positive; else 0.
EtaOutcomes(total, dl, secs) ==
    IF RatePositive(BytesPerSec(dl, secs))
    THEN {[panic |-> d.panic,
           eta |-> (d.val * BytesPerSec(dl, secs)[2]) \div BytesPerSec(dl, secs)[1]] :
            d \in SubU64(total, dl)}
    ELSE {[panic |-> FALSE, eta |-> 0]}

\* The ProgressUpdate message (lines 665-673); NoUpdate when none was sent.
ProgressUpdate(dl, total, rate, eta, secs) ==
    [downloaded |-> dl, total |-> total, bytes_per_sec |-> rate, eta |-> eta,
     elapsed |-> secs]

NoUpdate == ProgressUpdate(0, 0, <<0, 1>>, 0, 0)

\* The errors download_file and apply_update return.  kind "transport" is
\* the reqwest error of send() (its text names the URL), "body" the error of
\* a read of the response body (its url is <<>> when its text names none),
\* "http" the "HTTP error: <status>" of a non-success status, "file" a local
\* io::Error, "zip" an archive that cannot be read or parsed.
Err(kind, status, u) == [kind |-> kind, status |-> status, url |-> u]

NoErr == Err("none", 0, <<>>)

HttpFailures == {404, 500}

\* e.to_string().contains("404")
Contains404(e) ==
    \/ e.kind = "http" /\ e.status = 404
    \/ e.kind \in {"transport", "body"} /\ \E k \in 1..Len(e.url) : e.url[k] = "404"

\* A cleanup() that leaves update.zip where it is.
CleanupNothing(f) == f

\* Option<String>: None, or Some of a text.
None == <<>>

Some(text) == <<text>>

\* A text is a sequence of tokens; " " is white space.
\* str::trim: the text without its leading and trailing white space.
RECURSIVE TrimStart(_)
TrimStart(t) == IF t # <<>> /\ Head(t) = " " THEN TrimStart(Tail(t)) ELSE t

RECURSIVE TrimEnd(_)
TrimEnd(t) ==
    IF t # <<>> /\ t[Len(t)] = " " THEN TrimEnd(SubSeq(t, 1, Len(t) - 1)) ELSE t

\* A trim that keeps the text as it is.
TrimNothing(t) == t

Trim(t) == TrimEnd(TrimStart(t))

\* The manifest responses: a Content-Type header and a body text.  A manifest
\* text is "latestUrl" followed by the URL's tokens.
ContentTypes == {"none", "text/html", "application/json"}

HtmlBodies == {<<"<html>">>, <<" ", "<html>", " ">>, <<>>}

LatestTexts == {<<"latestUrl">> \o u : u \in LatestUrls} \cup HtmlBodies

LatestResponses == [content_type : ContentTypes, text : LatestTexts]

NoResponse == [content_type |-> "none", text |-> <<>>]

\* The text of the error of line 726: a fixed sentence, "Response:", a space
\* and the body.
HtmlErrorText(body) == <<"Received an HTML response", "Response:", " ">> \o body

\* get_latest_update_url() after the response has arrived (lines 720-737):
\* ok with the URL, or the text of its error.
LatestResult(r) ==
    IF r.content_type = "text/html"
    THEN [ok |-> FALSE, url |-> <<>>, text |-> HtmlErrorText(r.text)]
    ELSE IF Len(r.text) >= 2 /\ r.text[1] = "latestUrl"
    THEN [ok |-> TRUE, url |-> Tail(r.text), text |-> <<>>]
    ELSE [ok |-> FALSE, url |-> <<>>, text |-> <<"json">>]

\* error_string.contains("Received an HTML response") (line 495)
IsHtmlError(text) == \E k \in 1..Len(text) : text[k] = "Received an HTML response"

\* error_string.splitn(2, "Response:").nth(1): what follows the first
\* "Response:", if there is one.
RECURSIVE AfterResponse(_)
AfterResponse(text) ==
    IF text = <<>> THEN None
    ELSE IF Head(text) = "Response:" THEN Some(Tail(text))
    ELSE AfterResponse(Tail(text))

\* response_body (lines 496-499): the trimmed rest of the error text.
ResponseBody(text) ==
    IF AfterResponse(text) = None THEN None
    ELSE Some(Trim(AfterResponse(text)[1]))

\* cleanup(): remove update.zip if it exists.
Cleanup(f) == IF FileExists(f, UpdateZipPath) THEN RemoveFile(f, UpdateZipPath) ELSE f

\* A get_version_info() that falls back to a default code.
ReadVersionCodeDefault(f) ==
    IF ~FileExists(f, VersionFilePath) THEN "5"
    ELSE LET c == f.files[VersionFilePath] IN
         IF Len(c) = 2 /\ c[1] = "versionCode" THEN c[2] ELSE ""

\* get_version_info(): the version code of version.json, or "" when the file
\* is missing or holds no string versionCode.
ReadVersionCode(f) ==
    IF ~FileExists(f, VersionFilePath) THEN ""
    ELSE LET c == f.files[VersionFilePath] IN
         IF Len(c) = 2 /\ c[1] = "versionCode" THEN c[2] ELSE ""

\* A comparison that never finds the codes equal.
SameVersionNever(new_code, old_code) == FALSE

\* new_version_code == version_code
SameVersion(new_code, old_code) == new_code = old_code

\* ------------------------------------------------------------------- state
VARIABLES
    pc,            \* where the worker thread (update_task) stands
    fs,            \* the working directory
    procs,         \* pids of the running "Dreamio.exe" processes
    pids_to_kill,  \* the pids update_task found at its start
    ctx,           \* who called apply_update: "staged", "boot" or "loop"
    url,           \* download_and_apply_update's url argument
    reqs,          \* the URLs requested by the current download_and_apply_update
    fails,         \* the errors of its download_file calls, in order
    resp,          \* the part of the response body not read yet
    ret,           \* the result download_and_apply_update returns
    total_size,    \* download_file: the response's content length, 0 if unknown
    downloaded,    \* download_file: the chunks written so far
    elapsed,       \* download_file: whole seconds since the download started
    update,        \* download_file: the last ProgressUpdate message sent
    version_code,  \* the version code the loop read before the download
    archive_len,   \* apply_update: archive.len()
    i,             \* apply_update: the loop index
    entry,         \* apply_update: the entry (file) of the last iteration
    target,        \* apply_update: its original_file / file_to_delete, if any
    log,           \* apply_update: how each visited entry ended
    progress,      \* apply_update: the indices of the progress messages sent
    errors,        \* apply_update: the indices whose entry sent an Error message
    terminal,      \* the UpdateComplete / UpdateFailed messages sent
    error_response, \* the response attached to the last Error message sent
    latest,        \* get_latest_update_url: the response being examined
    retries,       \* how often UpdateGUI::retry has run
    old_cleanups,  \* workers of replaced UpdateGUIs that have sent UpdateFailed
                   \* and have their cleanup() still to run
    update_complete, \* UpdateGUI.update_complete: a terminal message was handled
    update_failed, \* UpdateGUI.update_failed: UpdateFailed was handled
    shared_state,  \* the SharedState main and every UpdateGUI share
    spawned,       \* how Command::new("Dreamio.exe").spawn() ended: "no" before
    exit_status,   \* the status the process exited with, None while it runs
    stagedFirst,   \* whether a staged update.zip was applied before the bootstrap;
                   \* cleared when the version loop is entered
    bootOne        \* the payload, when the https bootstrap archive was the single
                   \* entry Replace "game.dat" and was written; else <<>>

vars == <<pc, fs, procs, pids_to_kill, ctx, url, reqs, fails, resp, ret,
          total_size, downloaded, elapsed, update, version_code,
          archive_len, i, entry, target, log, progress, errors, terminal,
          error_response, latest, retries, old_cleanups, update_complete,
          update_failed, shared_state, spawned, exit_status, stagedFirst, bootOne>>

meterVars == <<total_size, downloaded, elapsed, update>>
dlVars == <<url, reqs, fails, resp, ret, meterVars>>
applyVars == <<archive_len, i, entry, target, log, progress, errors>>
sentVars == <<terminal, error_response>>
windowVars == <<update_complete, update_failed, shared_state, spawned, exit_status>>
guiVars == <<retries, old_cleanups, windowVars>>
ghostVars == <<stagedFirst, bootOne>>

Pids == 1..MaxPids

\* The zip files a previous run may have left behind.
StagedZips == {ZipBody, <<"PK">>}

\* The working directories the worker may start in: the updater itself,
\* possibly an installed game of version "5" and a staged archive.
InitFiles ==
    { f \in UNION { [d -> {<<"c1">>, ExeImage, ZipBody, <<"PK">>,
                           <<"versionCode", "5">>}] :
                    d \in SUBSET {ExePath, GamePath, VersionFilePath, UpdateZipPath} } :
        /\ ExePath \in DOMAIN f /\ f[ExePath] = ExeImage
        /\ GamePath \in DOMAIN f => f[GamePath] = <<"c1">>
        /\ VersionFilePath \in DOMAIN f => f[VersionFilePath] = <<"versionCode", "5">>
        /\ UpdateZipPath \in DOMAIN f => f[UpdateZipPath] \in StagedZips }

Init ==
    /\ pc = "Start"
    /\ \E f \in InitFiles : fs = [files |-> f, dirs |-> {}]
    /\ procs \in SUBSET Pids
    /\ pids_to_kill = {}
    /\ ctx = "none"
    /\ url = <<>>
    /\ reqs = <<>>
    /\ fails = <<>>
    /\ resp = <<>>
    /\ ret = NoErr
    /\ total_size = 0
    /\ downloaded = 0
    /\ elapsed = 0
    /\ update = NoUpdate
    /\ version_code = ""
    /\ archive_len = 0
    /\ i = 0
    /\ entry = NoEntry
    /\ target = NoPath
    /\ log = <<>>
    /\ progress = <<>>
    /\ errors = <<>>
    /\ terminal = <<>>
    /\ error_response = None
    /\ latest = NoResponse
    /\ retries = 0
    /\ old_cleanups = 0
    /\ update_complete = FALSE
    /\ update_failed = FALSE
    /\ shared_state = [update_complete |-> FALSE]
    /\ spawned = "no"
    /\ exit_status = None
    /\ stagedFirst = FALSE
    /\ bootOne = <<>>

\* ------------------------------------------------------ update_task: start
\* Lines 405-458: find the game's processes and send each a kill signal.
FindAndKill ==
    /\ pc = "Start"
    /\ pids_to_kill' = procs
    /\ pc' = IF procs # {} THEN "WaitExit" ELSE "CheckStaged"
    /\ UNCHANGED <<fs, procs, ctx, dlVars, version_code, applyVars, sentVars, latest, guiVars, ghostVars>>

\* A running game process leaves the process table.
ProcessExit(p) ==
    /\ p \in procs
    /\ procs' = procs \ {p}
    /\ UNCHANGED <<pc, fs, pids_to_kill, ctx, dlVars, version_code, applyVars,
                   sentVars, latest, guiVars, ghostVars>>

\* A poll that never sees a live process.
AnyProcessAliveNever(pids, table) == FALSE

\* any_process_alive (lines 439-441): one of the pids is in the process table.
AnyProcessAlive(pids, table) == pids \cap table # {}

\* Lines 437-446: the poll loop ends once none of the pids is alive; the pids
\* are not used again.
WaitExit ==
    /\ pc = "WaitExit"
    /\ ~AnyProcessAlive(pids_to_kill, procs)
    /\ pids_to_kill' = {}
    /\ pc' = "CheckStaged"
    /\ UNCHANGED <<fs, procs, ctx, dlVars, version_code, applyVars,
                   sentVars, latest, guiVars, ghostVars>>

\* A failure epilogue without its return: UpdateFailed is sent and the task
\* goes on to the version check.
SendFailedGoOn ==
    /\ error_response' = None
    /\ terminal' = Append(terminal, "UpdateFailed")
    /\ pc' = "CheckVersion"

\* The failure epilogue: Error and UpdateFailed are sent, cleanup() follows.
SendFailed ==
    /\ error_response' = None
    /\ terminal' = Append(terminal, "UpdateFailed")
    /\ pc' = "FailCleanup"

\* A test that never finds a staged archive.
StagedPresentNever(f) == FALSE

\* update_zip_path.exists() (line 460)
StagedPresent(f) == FileExists(f, UpdateZipPath)

\* Line 460: a staged update.zip is applied first.
CheckStaged ==
    /\ pc = "CheckStaged"
    /\ IF StagedPresent(fs)
       THEN ctx' = "staged" /\ pc' = "ApplyOpen"
       ELSE ctx' = ctx /\ pc' = "CheckVersion"
    /\ stagedFirst' = StagedPresent(fs)
    /\ UNCHANGED <<fs, procs, pids_to_kill, dlVars, version_code, applyVars,
                   sentVars, latest, guiVars, bootOne>>

\* ------------------------------------------------------------ apply_update
\* What follows apply_update's return, by caller.  Staged (lines 461-472):
\* an error fails the run, success runs cleanup().  Inside
\* download_and_apply_update (lines 700-702): an error is returned as is,
\* success runs cleanup() and returns Ok.
AfterApply(e) ==
    IF ctx = "staged"
    THEN IF e = NoErr
         THEN /\ fs' = Cleanup(fs)
              /\ pc' = "CheckVersion"
              /\ UNCHANGED <<sentVars, ret>>
         ELSE /\ SendFailed
              /\ UNCHANGED <<fs, ret>>
    ELSE /\ fs' = IF e = NoErr THEN Cleanup(fs) ELSE fs
         /\ ret' = e
         /\ pc' = "CallRet"
         /\ UNCHANGED sentVars

\* Lines 762-765: the zip cannot be read or is no archive.
ApplyOpenFail ==
    /\ pc = "ApplyOpen"
    /\ ~(FileExists(fs, UpdateZipPath) /\ IsZipArchive(fs.files[UpdateZipPath]))
    /\ AfterApply(Err("zip", 0, <<>>))
    /\ UNCHANGED <<procs, pids_to_kill, ctx, url, reqs, fails, resp, meterVars,
                   version_code, applyVars, latest, guiVars, ghostVars>>

\* Lines 762-768: the archive opens and reports its number of entries.
ApplyOpen ==
    /\ pc = "ApplyOpen"
    /\ FileExists(fs, UpdateZipPath)
    /\ IsZipArchive(fs.files[UpdateZipPath])
    /\ archive_len' \in 0..MaxEntries
    /\ i' = 0
    /\ entry' = NoEntry
    /\ target' = NoPath
    /\ log' = <<>>
    /\ progress' = <<>>
    /\ errors' = <<>>
    /\ pc' = "ApplyLoop"
    /\ UNCHANGED <<fs, procs, pids_to_kill, ctx, dlVars, version_code, sentVars,
                   latest, guiVars, ghostVars>>

\* Whether this entry makes the run the bootstrap of a single Replace "game.dat".
IsBootOne(e, o) ==
    /\ ctx = "boot"
    /\ StartsWithHttps(url)
    /\ ~stagedFirst
    /\ archive_len = 1
    /\ e.name = Name(<<>>, <<"game", "dat">>, FALSE)
    /\ o.res = "ok"

\* Lines 770-906: one iteration of the loop over the entries, the entry
\* being one of pool.
ApplyEntryFrom(pool) ==
    /\ pc = "ApplyLoop"
    /\ i < archive_len
    /\ \E e \in pool, io \in IoFaults :
         \E o \in EntryOutcomes(fs, e, io) :
            /\ fs' = o.fs
            /\ entry' = IF io = "access" THEN NoEntry ELSE e
            /\ target' = EntryTarget(e, io)
            /\ log' = Append(log, [disp |-> o.disp, res |-> o.res])
            /\ errors' = IF o.err THEN Append(errors, i + 1) ELSE errors
            /\ error_response' = IF o.err THEN None ELSE error_response
            /\ progress' = IF o.prog THEN Append(progress, i + 1) ELSE progress
            /\ bootOne' = IF IsBootOne(e, o) THEN e.data ELSE bootOne
    /\ i' = i + 1
    /\ UNCHANGED <<pc, procs, pids_to_kill, ctx, dlVars, version_code, archive_len,
                   terminal, latest, guiVars, stagedFirst>>

ApplyEntry == ApplyEntryFrom(EntryPool)

\* Line 908: the loop is over, apply_update returns Ok(()).
ApplyFinish ==
    /\ pc = "ApplyLoop"
    /\ i = archive_len
    /\ AfterApply(NoErr)
    /\ entry' = NoEntry
    /\ target' = NoPath
    /\ log' = <<>>
    /\ progress' = <<>>
    /\ errors' = <<>>
    /\ UNCHANGED <<procs, pids_to_kill, ctx, url, reqs, fails, resp, meterVars,
                   version_code, archive_len, i, latest, guiVars, ghostVars>>

\* ------------------------------------------- download_and_apply_update
\* The call: lines 684-687.
CallDownload(c, u) ==
    /\ ctx' = c
    /\ url' = u
    /\ reqs' = <<>>
    /\ fails' = <<>>
    /\ resp' = <<>>
    /\ ret' = NoErr
    /\ pc' = "Request"
    /\ UNCHANGED meterVars

\* The URL of the download_file call about to be made: the url argument, or
\* after a failed first attempt its scheme-substituted form (line 689).
RequestUrl == IF fails = <<>> THEN url ELSE ReplaceHttps(url)

\* A fallback taken whatever the scheme.
ShouldRetryAlways(u, e) == TRUE

\* Whether a failed download_file is followed by the fallback (line 688).
ShouldRetry(u, e) == StartsWithHttps(u)

\* download_file has returned or unwound: its locals are gone.
MeterReset ==
    /\ total_size' = 0
    /\ downloaded' = 0
    /\ elapsed' = 0
    /\ update' = NoUpdate

\* download_file returned Err(e): lines 687-698.  The first failure of an
\* https URL is followed by the http attempt; any other is returned.
DownloadFailed(e) ==
    /\ MeterReset
    /\ fails' = Append(fails, e)
    /\ IF fails = <<>> /\ ShouldRetry(url, e)
       THEN pc' = "Request" /\ ret' = ret
       ELSE pc' = "CallRet" /\ ret' = e

\* download_file returned Ok (line 699): the download's bookkeeping is over
\* and apply_update is called (line 700).
DownloadDone ==
    /\ MeterReset
    /\ url' = url
    /\ reqs' = <<>>
    /\ fails' = <<>>
    /\ pc' = "ApplyOpen"

\* Lines 623-634: the request is sent; it fails in transport, is answered with
\* a non-success status, or succeeds, and then update.zip is created.
Request ==
    /\ pc = "Request"
    /\ reqs' = Append(reqs, RequestUrl)
    /\ \/ /\ DownloadFailed(Err("transport", 0, RequestUrl))
          /\ UNCHANGED <<fs, resp>>
       \/ /\ \E st \in HttpFailures : DownloadFailed(Err("http", st, RequestUrl))
          /\ UNCHANGED <<fs, resp>>
       \/ /\ DownloadFailed(Err("file", 0, <<>>))
          /\ UNCHANGED <<fs, resp>>
       \/ /\ resp' \in Bodies
          /\ total_size' \in {0, Len(resp')}
          /\ fs' = TruncateFile(fs, UpdateZipPath)
          /\ pc' = "ReadBody"
          /\ UNCHANGED <<fails, ret, downloaded, elapsed, update>>
    /\ UNCHANGED <<procs, pids_to_kill, ctx, url, version_code, applyVars, sentVars,
                   latest, guiVars, ghostVars>>

\* Lines 638-673: one read of the body: an error, the end, or a chunk that
\* is written to update.zip and reported with a ProgressUpdate.  An overflow
\* panic in the eta computation unwinds the worker thread.
ReadBody ==
    /\ pc = "ReadBody"
    /\ \/ /\ \E u \in {RequestUrl, <<>>} : DownloadFailed(Err("body", 0, u))
          /\ UNCHANGED <<fs, resp, url, reqs>>
       \/ /\ resp = <<>>
          /\ DownloadDone
          /\ UNCHANGED <<fs, resp, ret>>
       \/ /\ resp # <<>>
          /\ fs' = AppendFile(fs, UpdateZipPath, Head(resp))
          /\ \E secs \in elapsed..MaxSecs :
               \E o \in EtaOutcomes(total_size, downloaded + 1, secs) :
                  IF o.panic
                  THEN /\ pc' = "Panicked"
                       /\ resp' = <<>>
                       /\ MeterReset
                  ELSE /\ pc' = pc
                       /\ resp' = Tail(resp)
                       /\ downloaded' = downloaded + 1
                       /\ elapsed' = secs
                       /\ update' = ProgressUpdate(downloaded + 1, total_size,
                                        BytesPerSec(downloaded + 1, secs), o.eta, secs)
                       /\ UNCHANGED total_size
          /\ UNCHANGED <<fails, ret, url, reqs>>
       \/ /\ resp # <<>>
          /\ DownloadFailed(Err("file", 0, <<>>))
          /\ UNCHANGED <<fs, resp, url, reqs>>
    /\ UNCHANGED <<procs, pids_to_kill, ctx, version_code, applyVars,
                   sentVars, latest, guiVars, ghostVars>>

\* ----------------------------------------------- update_task: the chain
\* Lines 593-599: Status, Log and UpdateComplete are sent; the worker returns.
SendComplete ==
    /\ terminal' = Append(terminal, "UpdateComplete")
    /\ UNCHANGED error_response
    /\ pc' = "Done"

\* Line 475: without version.json the game is downloaded afresh.
CheckVersion ==
    /\ pc = "CheckVersion"
    /\ pc' = IF FileExists(fs, VersionFilePath) THEN "LoopTop" ELSE "GetLatest"
    /\ UNCHANGED <<fs, procs, pids_to_kill, ctx, dlVars, version_code, applyVars,
                   sentVars, latest, guiVars, ghostVars>>

\* Lines 711-721: the manifest request.  When neither the https nor the http
\* request is answered, or the body cannot be read, the error is reported
\* (lines 502-516); else the response is examined next.
GetLatestSend ==
    /\ pc = "GetLatest"
    /\ \/ /\ SendFailed
          /\ UNCHANGED latest
       \/ /\ latest' \in LatestResponses
          /\ pc' = "LatestParse"
          /\ UNCHANGED sentVars
    /\ UNCHANGED <<fs, procs, pids_to_kill, ctx, dlVars, version_code, applyVars,
                   guiVars, ghostVars>>

\* Lines 479-481: get_latest_update_url() answers with the latest archive's URL.
GetLatestOk ==
    /\ pc = "LatestParse"
    /\ LatestResult(latest).ok
    /\ CallDownload("boot", LatestResult(latest).url)
    /\ latest' = NoResponse
    /\ UNCHANGED <<fs, procs, pids_to_kill, version_code, applyVars, sentVars,
                   guiVars, ghostVars>>

\* Lines 493-517: get_latest_update_url() fails (an HTML page, no JSON, no
\* latestUrl).  The Error message of an HTML response carries the body.
GetLatestFail ==
    /\ pc = "LatestParse"
    /\ ~LatestResult(latest).ok
    /\ error_response' = IF IsHtmlError(LatestResult(latest).text)
                          THEN ResponseBody(LatestResult(latest).text)
                          ELSE None
    /\ terminal' = Append(terminal, "UpdateFailed")
    /\ pc' = "FailCleanup"
    /\ UNCHANGED <<fs, procs, pids_to_kill, ctx, dlVars, version_code, applyVars,
                   latest, guiVars, ghostVars>>

\* Lines 521-530 and 579-589: the head of the loop reads version.json.
LoopTop ==
    /\ pc = "LoopTop"
    /\ IF ReadVersionCode(fs) # ""
       THEN /\ version_code' = ReadVersionCode(fs)
            /\ CallDownload("loop", VersionedUrl(ReadVersionCode(fs)))
            /\ UNCHANGED sentVars
       ELSE /\ SendFailed
            /\ UNCHANGED <<ctx, dlVars, version_code>>
    /\ stagedFirst' = FALSE
    /\ UNCHANGED <<fs, procs, pids_to_kill, applyVars, latest, guiVars, bootOne>>

\* The caller has matched on the result of download_and_apply_update: the
\* call's url, requests, errors and result are gone.
DropCall ==
    /\ url' = <<>>
    /\ reqs' = <<>>
    /\ fails' = <<>>
    /\ resp' = <<>>
    /\ ret' = NoErr
    /\ UNCHANGED meterVars

\* An error test that lets a "404" text pass.
IsErrUnless404(r) == r # NoErr /\ ~Contains404(r)

\* if let Err(e) = download_and_apply_update(..) (line 481)
IsErr(r) == r # NoErr

\* Lines 481-491: the bootstrap download_and_apply_update returned.
BootReturn ==
    /\ pc = "CallRet"
    /\ ctx = "boot"
    /\ IF IsErr(ret)
       THEN SendFailed
       ELSE pc' = "LoopTop" /\ UNCHANGED sentVars
    /\ DropCall
    /\ UNCHANGED <<fs, procs, pids_to_kill, ctx, version_code, applyVars, latest, guiVars, ghostVars>>

\* Lines 530-577: the loop's download_and_apply_update returned.  After Ok
\* version.json is read again: the same code ends the loop, another one
\* starts the next round, no code fails the run.  After Err a text with
\* "404" ends the loop, any other fails the run.
LoopReturn ==
    /\ pc = "CallRet"
    /\ ctx = "loop"
    /\ IF ret = NoErr
       THEN IF ReadVersionCode(fs) = ""
            THEN SendFailed
            ELSE IF SameVersion(ReadVersionCode(fs), version_code)
            THEN SendComplete
            ELSE pc' = "LoopTop" /\ UNCHANGED sentVars
       ELSE IF Contains404(ret)
            THEN SendComplete
            ELSE SendFailed
    /\ DropCall
    /\ UNCHANGED <<fs, procs, pids_to_kill, ctx, version_code, applyVars, latest, guiVars, ghostVars>>

\* The cleanup() that follows every UpdateFailed; the worker returns.
FailCleanup ==
    /\ pc = "FailCleanup"
    /\ fs' = Cleanup(fs)
    /\ pc' = "Done"
    /\ UNCHANGED <<procs, pids_to_kill, ctx, dlVars, version_code, applyVars,
                   sentVars, latest, guiVars, ghostVars>>

Worker ==
    \/ FindAndKill
    \/ WaitExit
    \/ CheckStaged
    \/ ApplyOpenFail
    \/ ApplyOpen
    \/ ApplyEntry
    \/ ApplyFinish
    \/ CheckVersion
    \/ GetLatestSend
    \/ GetLatestOk
    \/ GetLatestFail
    \/ LoopTop
    \/ Request
    \/ ReadBody
    \/ BootReturn
    \/ LoopReturn
    \/ FailCleanup

Next == Worker \/ \E p \in Pids : ProcessExit(p)

Spec == Init /\ [][Next]_vars

\* The worker thread is scheduled, every request returns, and every game
\* process found at the start exits.
FairSpec == Spec /\ WF_vars(Worker) /\ \A p \in Pids : WF_vars(ProcessExit(p))

\* ------------------------------------------------------------ UpdateGUI
\* The window is open: eframe::run_native has not returned (lines 957-963).
WindowOpen == exit_status = None

\* A try_recv that takes whatever terminal message is there for msg.
ReceivedAny(msg) == ~update_complete /\ terminal # <<>>

\* while let Ok(msg) = self.update_receiver.try_recv() (line 223) yields the
\* terminal message msg: the worker has sent it and this UpdateGUI has not
\* taken it yet (both handlers set self.update_complete).
Received(msg) == ~update_complete /\ terminal = <<msg>>

\* The pid a newly spawned game process gets.
NewPid(table) == CHOOSE p \in Pids \ table : \A q \in Pids \ table : p <= q

\* Lines 271-300: UpdateComplete is handled.  The game is spawned; whether
\* or not that succeeds the shared state is marked complete and the window
\* is asked to close.
HandleUpdateComplete ==
    /\ WindowOpen
    /\ Received("UpdateComplete")
    /\ update_complete' = TRUE
    /\ \/ /\ Pids \ procs # {}
          /\ spawned' = "ok"
          /\ procs' = procs \cup {NewPid(procs)}
       \/ /\ spawned' = "err"
          /\ procs' = procs
    /\ shared_state' = [shared_state EXCEPT !.update_complete = TRUE]
    /\ UNCHANGED <<pc, fs, pids_to_kill, ctx, dlVars, version_code, applyVars,
                   sentVars, latest, retries, old_cleanups, update_failed,
                   exit_status, ghostVars>>

\* Lines 301-310: UpdateFailed is handled.
HandleUpdateFailed ==
    /\ WindowOpen
    /\ Received("UpdateFailed")
    /\ update_complete' = TRUE
    /\ update_failed' = TRUE
    /\ UNCHANGED <<pc, fs, procs, pids_to_kill, ctx, dlVars, version_code, applyVars,
                   sentVars, latest, retries, old_cleanups, shared_state, spawned,
                   exit_status, ghostVars>>

\* A Retry button that is always shown.
RetryShownAlways == TRUE

\* Line 346: the Retry buttons are drawn if self.update_failed.
RetryShown == update_failed

\* Lines 182-190 and 130-163: retry() replaces the GUI state by
\* UpdateGUI::new, which makes a new channel and spawns a new worker; the
\* shared state is handed on.  Nothing waits for the previous worker, whose
\* cleanup() comes after its UpdateFailed.
Retry ==
    /\ WindowOpen
    /\ RetryShown
    /\ retries < MaxRetries
    /\ retries' = retries + 1
    /\ old_cleanups' = IF pc = "FailCleanup" THEN old_cleanups + 1 ELSE old_cleanups
    /\ update_complete' = FALSE
    /\ update_failed' = FALSE
    /\ pc' = "Start"
    /\ pids_to_kill' = {}
    /\ ctx' = "none"
    /\ DropCall
    /\ version_code' = ""
    /\ archive_len' = 0
    /\ i' = 0
    /\ entry' = NoEntry
    /\ target' = NoPath
    /\ log' = <<>>
    /\ progress' = <<>>
    /\ errors' = <<>>
    /\ terminal' = <<>>
    /\ error_response' = None
    /\ latest' = NoResponse
    /\ stagedFirst' = FALSE
    /\ bootOne' = <<>>
    /\ UNCHANGED <<fs, procs, shared_state, spawned, exit_status>>

\* Lines 469, 489, 515, 552, 573, 587: the cleanup() of a previous worker.
OldCleanup ==
    /\ old_cleanups > 0
    /\ old_cleanups' = old_cleanups - 1
    /\ fs' = Cleanup(fs)
    /\ UNCHANGED <<pc, procs, pids_to_kill, ctx, dlVars, version_code, applyVars,
                   sentVars, latest, retries, windowVars, ghostVars>>

\* A status that does not look at the shared state.
ExitStatusZero(state) == 0

\* Lines 965-971 of main: the status follows shared_state.update_complete.
ExitStatus(state) == IF state.update_complete THEN 0 ELSE 1

\* Lines 957-971: the window closes (the user closes it, or the Close command
\* of the UpdateComplete handler takes effect), run_native returns and main
\* calls process::exit, which ends every worker thread where it stands.
CloseWindow ==
    /\ WindowOpen
    /\ exit_status' = Some(ExitStatus(shared_state))
    /\ pc' = "Exited"
    /\ old_cleanups' = 0
    /\ pids_to_kill' = {}
    /\ ctx' = "none"
    /\ url' = <<>>
    /\ reqs' = <<>>
    /\ fails' = <<>>
    /\ resp' = <<>>
    /\ ret' = NoErr
    /\ MeterReset
    /\ version_code' = ""
    /\ archive_len' = 0
    /\ i' = 0
    /\ entry' = NoEntry
    /\ target' = NoPath
    /\ log' = <<>>
    /\ progress' = <<>>
    /\ errors' = <<>>
    /\ terminal' = <<>>
    /\ error_response' = None
    /\ latest' = NoResponse
    /\ stagedFirst' = FALSE
    /\ bootOne' = <<>>
    /\ UNCHANGED <<fs, procs, retries, update_complete, update_failed,
                   shared_state, spawned>>

NextRetry ==
    \/ Next
    \/ HandleUpdateComplete
    \/ HandleUpdateFailed
    \/ Retry
    \/ OldCleanup
    \/ CloseWindow

\* The worker together with the window: the GUI handles the terminal message,
\* a user may press Retry and the window may close at any time.
RetrySpec == Init /\ [][NextRetry]_vars

\* --------------------------------------------- apply_update on suffixed names
\* The worker about to handle the only entry of a staged archive: the state
\* update_task is in after lines 405-468 and 762-770.
SuffixInit ==
    /\ pc = "ApplyLoop"
    /\ \E f \in InitFiles :
          /\ UpdateZipPath \in DOMAIN f
          /\ f[UpdateZipPath] = ZipBody
          /\ fs = [files |-> f, dirs |-> {}]
    /\ procs = {}
    /\ pids_to_kill = {}
    /\ ctx = "staged"
    /\ url = <<>>
    /\ reqs = <<>>
    /\ fails = <<>>
    /\ resp = <<>>
    /\ ret = NoErr
    /\ total_size = 0
    /\ downloaded = 0
    /\ elapsed = 0
    /\ update = NoUpdate
    /\ version_code = ""
    /\ archive_len = 1
    /\ i = 0
    /\ entry = NoEntry
    /\ target = NoPath
    /\ log = <<>>
    /\ progress = <<>>
    /\ errors = <<>>
    /\ terminal = <<>>
    /\ error_response = None
    /\ latest = NoResponse
    /\ retries = 0
    /\ old_cleanups = 0
    /\ update_complete = FALSE
    /\ update_failed = FALSE
    /\ shared_state = [update_complete |-> FALSE]
    /\ spawned = "no"
    /\ exit_status = None
    /\ stagedFirst = TRUE
    /\ bootOne = <<>>

\* The iteration of lines 770-906 on an entry with a suffixed name.
SuffixEntry == ApplyEntryFrom(SuffixedPool)

SuffixNext == SuffixEntry

\* apply_update applied to one entry of every suffixed name.
SuffixSpec == SuffixInit /\ [][SuffixNext]_vars

\* ================================================================== claims
Range(s) == {s[k] : k \in 1..Len(s)}

PassOver == pc = "ApplyLoop" /\ i = archive_len

HasFile(path, data) == FileExists(fs, path) /\ fs.files[path] = data

\* C1: no entry of any archive, under any disposition, creates, overwrites,
\* patches or deletes the running updater's executable: the file stays as it
\* was when the worker started.
C1_SelfProtection == HasFile(ExePath, ExeImage)

\* C2: when a pass over an opened archive of n entries is over, the progress
\* notification has been sent exactly n times, with the indices 1, 2, ..., n.
C2_ProgressEveryEntry ==
    PassOver =>
        /\ Len(progress) = archive_len
        /\ \A k \in 1..Len(progress) : progress[k] = k

\* C3 as stated: a bootstrap (no version.json, no update.zip, an https latest
\* URL) whose archive is the single entry Replace "game.dat" ends with
\* game.dat written and UpdateComplete sent.
C3_BootstrapConverges ==
    (bootOne # <<>> /\ pc = "Done") =>
        /\ HasFile(GamePath, bootOne)
        /\ terminal = <<"UpdateComplete">>

\* C3 amended: that bootstrap writes game.dat with the payload and the run
\* ends in Failed: version.json is still missing when the version loop reads
\* it, so UpdateFailed is sent and UpdateComplete never is.
C3_BootstrapFails ==
    bootOne # <<>> =>
        /\ HasFile(GamePath, bootOne)
        /\ ~FileExists(fs, VersionFilePath)
        /\ "UpdateComplete" \notin Range(terminal)
        /\ pc = "Done" => terminal = <<"UpdateFailed">>

C3_Witness ==
    /\ bootOne = <<"c2">>
    /\ pc = "Done"
    /\ terminal = <<"UpdateFailed">>
    /\ HasFile(GamePath, <<"c2">>)

\* The first request of the current download was answered with HTTP 404.
First404 == fails # <<>> /\ fails[1].kind = "http" /\ fails[1].status = 404

\* C4: in the version loop, once the request for the versioned URL was
\* answered 404 the run ends with UpdateComplete, never with UpdateFailed,
\* whatever the fallback request yields.
C4_TipReached ==
    [][ (pc = "CallRet" /\ ctx = "loop" /\ First404) =>
           (pc' = "Done" /\ terminal' = <<"UpdateComplete">>) ]_vars

\* C5: whenever UpdateComplete has been sent, update.zip does not exist.
C5_NoZipOnSuccess ==
    "UpdateComplete" \in Range(terminal) => ~FileExists(fs, UpdateZipPath)

\* C6: the http retry is issued only after a transport error of the first
\* attempt; a non-success status or a local file error is not retried.
C6_RetryOnlyOnTransport ==
    Len(reqs) = 2 => fails[1].kind \in {"transport", "body"}

\* C7: one download_and_apply_update issues at most two requests; the second
\* follows a failed request to an https URL and goes to its http form; a
\* failed fallback, or a failed request to a URL that is not https, is
\* returned to the caller with no further request.
C7_FallbackBounded ==
    /\ Len(reqs) <= 2
    /\ Len(fails) <= Len(reqs)
    /\ Len(reqs) = 2 =>
          /\ reqs[1] = url
          /\ reqs[1][1] = "https"
          /\ reqs[2][1] = "http"
          /\ Tail(reqs[2]) = Tail(reqs[1])
          /\ Len(fails) >= 1
    /\ Len(fails) = 2 =>
          /\ pc = "CallRet"
          /\ ret = fails[2]
    /\ (Len(fails) = 1 /\ reqs[1][1] # "https") =>
          /\ Len(reqs) = 1
          /\ pc = "CallRet"
          /\ ret = fails[1]

C7_Witness ==
    /\ pc = "CallRet"
    /\ Len(reqs) = 2
    /\ Len(fails) = 2
    /\ ret = fails[2]

\* C8: in the version loop, when version.json read after a successful
\* download and apply holds the code read before the download, the worker
\* leaves the loop at once: UpdateComplete is sent and the worker returns
\* with no further request; once returned it requests nothing.
C8_Convergence ==
    [][ /\ (pc = "CallRet" /\ ctx = "loop" /\ ret = NoErr
              /\ FileExists(fs, VersionFilePath)
              /\ fs.files[VersionFilePath] = <<"versionCode", version_code>>)
           => (pc' = "Done" /\ terminal' = <<"UpdateComplete">> /\ reqs' = reqs)
        /\ pc = "Done" => (pc' = "Done" /\ reqs' = reqs) ]_vars

C8_Witness ==
    /\ pc = "CallRet"
    /\ ctx = "loop"
    /\ ret = NoErr
    /\ HasFile(VersionFilePath, <<"versionCode", version_code>>)

\* C9: a pass over an opened archive visits every index and returns Ok
\* whatever happens to single entries: each step moves to the next index,
\* every failed entry (and no other) has sent an Error message, a Replace
\* entry that did not fail has its file written whatever came before it, and
\* at the end apply_update returns Ok to its caller.
C9_FailureIsolation ==
    /\ [](pc = "ApplyLoop" =>
            /\ Len(log) = i
            /\ i <= archive_len
            /\ \A k \in 1..Len(log) :
                  log[k].res \in {"fail", "delfail"} <=> k \in Range(errors))
    /\ [][ /\ (pc = "ApplyLoop" /\ i < archive_len) =>
                 /\ pc' = "ApplyLoop"
                 /\ i' = i + 1
                 /\ archive_len' = archive_len
                 /\ (log'[i'].disp = "Replace" /\ log'[i'].res = "ok") =>
                       \E e \in EntryPool :
                          /\ Classify(e.name) = "Replace"
                          /\ FileExists(fs', PathBufFrom(e.name))
                          /\ fs'.files[PathBufFrom(e.name)] = e.data
           /\ PassOver =>
                 IF ctx = "staged" THEN pc' = "CheckVersion"
                 ELSE pc' = "CallRet" /\ ret' = NoErr ]_vars

\* The pass of the scenario: a .patch entry that failed, then a Replace entry
\* that was written; one Error message in all.
C9_Witness ==
    /\ PassOver
    /\ archive_len = 2
    /\ log = <<[disp |-> "Patch", res |-> "fail"], [disp |-> "Replace", res |-> "ok"]>>
    /\ errors = <<1>>
    /\ progress = <<2>>

\* C10: under fair scheduling, with every game process exiting and every
\* request returning, every run of update_task eventually returns, having
\* sent UpdateComplete or UpdateFailed.  (A worker unwound by the overflow
\* panic of the eta computation is set aside here: the property is stated
\* for the runs without it.)
C10_Termination == <>(pc = "Panicked" \/ (pc = "Done" /\ Len(terminal) = 1))

\* C11: no eta computation overflows, and every ProgressUpdate sent has eta 0
\* when its bytes_per_sec is 0 or its total size is 0.
C11_EtaInvariant ==
    /\ pc # "Panicked"
    /\ (~RatePositive(update.bytes_per_sec) \/ update.total = 0) => update.eta = 0

C19_BootstrapNeverBenign ==
    /\ [](ctx = "boot" => "UpdateComplete" \notin Range(terminal))
    /\ [][ /\ pc = "CheckVersion" =>
                 (pc' = "GetLatest" <=> ~FileExists(fs, VersionFilePath))
           /\ pc' = "GetLatest" => pc = "CheckVersion"
           /\ (pc = "CallRet" /\ ctx = "boot" /\ ret # NoErr) =>
                 (pc' = "FailCleanup" /\ terminal' = <<"UpdateFailed">>) ]_vars

\* The bootstrap download has returned the error of an HTTP 404.
C19_Witness ==
    /\ pc = "CallRet"
    /\ ctx = "boot"
    /\ ret.kind = "http"
    /\ ret.status = 404

EntrySeen == pc = "ApplyLoop" /\ i > 0 /\ entry # NoEntry

\* The target of a Patch or Delete entry: out_path.with_extension("").
TargetOf(e) == WithExtensionEmpty(PathBufFrom(e.name))

C16_DeleteIdempotent ==
    /\ [][ (pc = "ApplyLoop" /\ i' = i + 1 /\ entry' # NoEntry
               /\ log'[i'].disp = "Delete") =>
             /\ ~PathExists(fs, TargetOf(entry')) =>
                   (fs' = fs /\ errors' = errors /\ log'[i'].res = "ok")
             /\ log'[i'].res = "ok" => ~PathExists(fs', TargetOf(entry')) ]_vars
    /\ [](\A e \in EntryPool :
             Classify(e.name) = "Delete" =>
                LET once == DeleteOutcome(fs, TargetOf(e), "none").fs
                IN  DeleteOutcome(once, TargetOf(e), "none").fs = once)

\* The same Delete entry was applied twice in one pass, with no Error.
C16_Witness ==
    /\ EntrySeen
    /\ i = 2
    /\ log = <<[disp |-> "Delete", res |-> "ok"], [disp |-> "Delete", res |-> "ok"]>>
    /\ entry.name = Name(<<>>, <<"game", "dat", "delete">>, FALSE)
    /\ errors = <<>>
    /\ ~FileExists(fs, GamePath)

\* A payload Bspatch::new rejects.
Malformed(data) == Len(data) # 3 \/ data[1] # PatchMagic

\* C17: a Patch entry whose target is missing or whose payload is malformed
\* sends an Error message, creates and changes no file, and the pass goes on
\* with the next index.
C17_PatchFailsClean ==
    [][ (pc = "ApplyLoop" /\ i' = i + 1 /\ entry' # NoEntry
           /\ log'[i'].disp = "Patch"
           /\ (~FileExists(fs, TargetOf(entry')) \/ Malformed(entry'.data))) =>
          /\ fs' = fs
          /\ log'[i'].res = "fail"
          /\ errors' = Append(errors, i')
          /\ pc' = "ApplyLoop"
          /\ archive_len' = archive_len ]_vars

\* A malformed patch of an existing game.dat was reported; the file is intact.
C17_Witness ==
    /\ EntrySeen
    /\ entry.data = <<"junk">>
    /\ log[i] = [disp |-> "Patch", res |-> "fail"]
    /\ errors[Len(errors)] = i
    /\ HasFile(GamePath, <<"c1">>)

\* C18 as stated: a manifest response that declares text/html makes the
\* worker send an Error message carrying the response body as it was
\* received, then UpdateFailed.
C18_HtmlGuardBody ==
    [][ (pc = "LatestParse" /\ latest.content_type = "text/html") =>
          /\ error_response' = Some(latest.text)
          /\ terminal' = <<"UpdateFailed">>
          /\ pc' = "FailCleanup" ]_vars

\* C18 amended: a manifest response that declares text/html makes the worker
\* send an Error message carrying the response body trimmed of leading and
\* trailing white space, then UpdateFailed; no other failure of
\* get_latest_update_url attaches a response; after that Error the worker
\* only cleans up and returns, with no request and no apply.
C18_HtmlGuardTrimmed ==
    /\ [][ /\ (pc = "LatestParse" /\ latest.content_type = "text/html") =>
                 /\ error_response' = Some(Trim(latest.text))
                 /\ terminal' = <<"UpdateFailed">>
                 /\ pc' = "FailCleanup"
           /\ (pc = "LatestParse" /\ latest.content_type # "text/html") =>
                 error_response' = None
           /\ error_response # None =>
                 (pc = "FailCleanup" /\ pc' = "Done" /\ reqs' = reqs) ]_vars
    /\ [](error_response # None =>
             /\ pc \in {"FailCleanup", "Done"}
             /\ reqs = <<>>
             /\ latest.content_type = "text/html")

\* An HTML page padded with white space was answered; the run has failed and
\* the Error message carries the page without the padding.
C18_Witness ==
    /\ pc = "Done"
    /\ latest = [content_type |-> "text/html", text |-> <<" ", "<html>", " ">>]
    /\ error_response = Some(<<"<html>">>)
    /\ terminal = <<"UpdateFailed">>

\* The workers that have filesystem actions to come: the current one until
\* it has returned or unwound, and the replaced ones before their cleanup().
PendingWorkers ==
    old_cleanups + (IF pc \in {"Done", "Panicked", "Exited"} THEN 0 ELSE 1)

\* C13: at every moment at most one worker has filesystem actions to come; a
\* worker spawned by Retry does not coexist with the cleanup() of the worker
\* before it.
C13_SingleWorker == PendingWorkers <= 1

\* C25: during a pass over an archive of n entries the indices of the progress
\* messages are strictly increasing and lie in 1..n; the index of a visited
\* entry is reported exactly when the entry was neither skipped as the running
\* executable nor failed (access, directory creation, patch read or apply,
\* file creation, write); a Delete entry whose removal failed has sent an
\* Error message and is reported all the same.
C25_ProgressEntries ==
    pc = "ApplyLoop" =>
        /\ \A k \in 1..Len(progress) :
              /\ progress[k] \in 1..archive_len
              /\ k > 1 => progress[k - 1] < progress[k]
        /\ \A k \in 1..Len(log) :
              /\ k \in Range(progress) <=> log[k].res \notin {"skip", "fail"}
              /\ log[k].res = "delfail" =>
                    k \in Range(errors) /\ k \in Range(progress)

\* A pass of two entries: a Delete whose removal failed (Error and progress)
\* and the running executable's own entry (skipped, no progress).
C25_Witness ==
    /\ PassOver
    /\ archive_len = 2
    /\ log = <<[disp |-> "Delete", res |-> "delfail"], [disp |-> "none", res |-> "skip"]>>
    /\ errors = <<1>>
    /\ progress = <<1>>

\* C26: a run of update_task that returns has sent exactly one of
\* UpdateComplete and UpdateFailed, never both, and that message is the last
\* one the worker puts on the channel: once it is sent no Error, progress or
\* ProgressUpdate message and no second terminal message follows.
C26_OneTerminal ==
    /\ [](/\ Len(terminal) <= 1
          /\ pc = "Done" => Len(terminal) = 1
          /\ terminal # <<>> => pc \in {"FailCleanup", "Done"})
    /\ [][terminal # <<>> =>
             /\ terminal' = terminal
             /\ error_response' = error_response
             /\ errors' = errors
             /\ progress' = progress
             /\ update' = update]_vars

\* A run that has returned after a failure (its cleanup() done), and one that
\* has returned after success, are both reached; this is the failed one.
C26_Witness ==
    /\ pc = "Done"
    /\ terminal = <<"UpdateFailed">>
    /\ ~FileExists(fs, UpdateZipPath)
    /\ version_code = "5"

\* C23: every download_file call writes update.zip from byte zero: while the
\* body is read the file holds exactly the chunks this call has received, so
\* after an https attempt that failed part-way and an http fallback that
\* succeeded the file handed to apply_update is the fallback's response body
\* and nothing else.
C23_RetryFromZero ==
    /\ [](pc = "ReadBody" =>
            /\ FileExists(fs, UpdateZipPath)
            /\ Len(fs.files[UpdateZipPath]) = downloaded
            /\ fs.files[UpdateZipPath] \o resp \in Bodies)
    /\ [][(pc = "ReadBody" /\ pc' = "ApplyOpen") =>
             /\ resp = <<>>
             /\ fs' = fs]_vars

\* The http fallback of an https download whose first attempt broke off while
\* its body was read; the fallback's archive has been received whole.
C23_Witness ==
    /\ pc = "ReadBody"
    /\ Len(reqs) = 2
    /\ StartsWithHttps(url)
    /\ reqs[2] = ReplaceHttps(url)
    /\ fails[1].kind = "body"
    /\ resp = <<>>
    /\ downloaded = 2
    /\ HasFile(UpdateZipPath, ZipBody)

\* C24: every download of the version loop uses the URL made from the version
\* code version.json holds when the loop head reads it; when the loop comes
\* round again (the code re-read after the last download differed from that
\* download's code) the next download's code differs from the last one's.
C24_ChainAdvance ==
    [][ /\ (pc = "LoopTop" /\ pc' = "Request") =>
              /\ FileExists(fs, VersionFilePath)
              /\ fs.files[VersionFilePath] = <<"versionCode", version_code'>>
              /\ url' = <<"https", "patches", version_code'>>
              /\ ctx' = "loop"
              /\ version_code # "" => version_code' # version_code
        /\ (pc = "CallRet" /\ ctx = "loop" /\ pc' = "LoopTop") =>
              /\ ret = NoErr
              /\ fs' = fs
              /\ version_code' = version_code
              /\ fs.files[VersionFilePath] # <<"versionCode", version_code>> ]_vars

\* The loop back at its head: the download for code "5" installed a
\* version.json with code "404", which the next download will use.
C24_Witness ==
    /\ pc = "LoopTop"
    /\ version_code = "5"
    /\ HasFile(VersionFilePath, <<"versionCode", "404">>)

\* C22: for every entry handled by the Patch or the Delete branch the target
\* path (original_file, file_to_delete) is the entry's name without its last
\* ".patch" / ".delete", also when the final component is nothing but that
\* suffix or has several dots; the target is never the entry's own path.
C22_SuffixStripping ==
    (EntrySeen /\ log[i].disp \in {"Patch", "Delete"}) =>
        LET n == entry.name IN
        /\ target = Path(n.dir, SubSeq(n.base, 1, Len(n.base) - 1))
        /\ target # PathBufFrom(n)

\* C21: the game is spawned only by the handler of UpdateComplete: a spawn
\* attempt, and every new game process, comes in a step taken when the
\* current worker has returned after sending UpdateComplete and this GUI has
\* handled no UpdateFailed; so never after UpdateFailed and never while the
\* worker still downloads or applies.
C21_RelaunchOnlyConverged ==
    /\ [](spawned # "no" => (update_complete /\ ~update_failed))
    /\ [][(spawned' # spawned \/ ~(procs' \subseteq procs)) =>
             /\ terminal = <<"UpdateComplete">>
             /\ pc = "Done"
             /\ ~update_complete
             /\ ~update_failed
             /\ update_complete' ]_vars

\* The game runs, spawned by the UpdateComplete handler of a GUI created by
\* Retry; the window is still open.
C21_Witness ==
    /\ spawned = "ok"
    /\ procs # {}
    /\ retries = 1
    /\ pc = "Done"
    /\ WindowOpen

\* C27: Retry is taken only when this GUI has handled the UpdateFailed of its
\* current worker, which by then has sent its last message and has at most
\* its cleanup() left; the replaced worker therefore never sends on the
\* dropped channel, and the new worker is the only one that sends.
C27_RetryAfterFailed ==
    [][retries' # retries =>
          /\ update_failed
          /\ terminal = <<"UpdateFailed">>
          /\ pc \in {"FailCleanup", "Done"}
          /\ terminal' = <<>>
          /\ pc' = "Start"
          /\ old_cleanups' = old_cleanups + (IF pc = "FailCleanup" THEN 1 ELSE 0) ]_vars

\* After Retry the new worker downloads while the replaced one has only its
\* cleanup() to run.
C27_Witness ==
    /\ retries = 1
    /\ pc = "ReadBody"
    /\ old_cleanups = 1
    /\ ~update_failed

\* C28: the process exits with status 0 exactly when the GUI had handled
\* UpdateComplete (the spawn was attempted, with or without success) before
\* the window closed; with UpdateFailed handled and not retried, or with no
\* terminal message handled, it exits with status 1.
C28_ExitStatus ==
    ~WindowOpen =>
        /\ exit_status \in {Some(0), Some(1)}
        /\ exit_status = Some(0) <=> spawned # "no"
        /\ exit_status = Some(0) <=> (update_complete /\ ~update_failed)
        /\ update_failed => exit_status = Some(1)
        /\ ~update_complete => exit_status = Some(1)

\* The spawn of the game failed and the process exited with status 0, after
\* an earlier worker had failed and Retry was pressed.
C28_Witness ==
    /\ exit_status = Some(0)
    /\ spawned = "err"
    /\ retries = 1

====
